---- MODULE Spec2Model ----
(***************************************************************************)
(* Model of deflex/scenario_tools.py: the node registry (NodeDict), the    *)
(* horizon set-up (Scenario.initialise_energy_system), the orchestrator    *)
(* (Scenario.table2es, DeflexScenario.create_nodes) and the builders that  *)
(* fill the registry from the table collection.                            *)
(*                                                                         *)
(* Conventions                                                             *)
(*   - a number of a table is an exact rational [n, d] in lowest terms;    *)
(*     float("inf") is the value Inf = 1/0;                                *)
(*   - a Python keyword argument that may be left out is a sequence:       *)
(*     <<>> when it was not passed, <<v>> when it was passed as v;         *)
(*   - a Label namedtuple is a record [cat, tag, subtag, region];          *)
(*   - a dict keyed by Bus objects (inputs=, outputs=, conversion_factors=)*)
(*     is a function keyed by the label under which the Bus is stored;     *)
(*   - a builder is an operator from (tables, registry) to a record        *)
(*     [nodes, err]: the registry as the builder left it and the exception *)
(*     it raised ("none" when it returned).                                *)
(***************************************************************************)
EXTENDS Integers, Sequences, FiniteSets, TLC

VARIABLES
    tc,             \* Scenario.table_collection
    extra_regions,  \* DeflexScenario.extra_regions
    year,           \* Scenario.year
    debug,          \* Scenario.debug
    es,             \* Scenario.es
    nodes,          \* the NodeDict of the running create_nodes / of the registry harness
    pc,             \* position inside table2es / create_nodes
    err,            \* the exception that ended the last call ("none": it returned)
    trace,          \* the builders called by the running create_nodes, in call order
    runs,           \* number of table2es calls started
    es0,            \* the nodes of es when the running table2es call started
    last            \* the last operation applied, with the state it was applied to

vars == <<tc, extra_regions, year, debug, es, nodes, pc, err, trace, runs, es0, last>>

----------------------------------------------------------------------------
(* Bounds of the model *)

\* number of rows of the time-indexed tables (len of the index)
NSteps == 2
\* largest entry of a time series
MaxVal == 1
\* largest capacity of a volatile source
MaxCap == 1
\* number of item assignments of the registry harness
MaxInserts == 3
\* number of table2es calls on one scenario
MaxRuns == 2
\* number of rows of the transmission table
MaxLines == 2
\* number of builder calls made directly on one registry
MaxCalls == 3
\* the integer years the horizon is set up for are YearLo..YearHi
YearLo == 1896
YearHi == 2104

----------------------------------------------------------------------------
(* Exact rational arithmetic for the float values of the tables *)

RECURSIVE GCD(_, _)
GCD(a, b) == IF b = 0 THEN a ELSE GCD(b, a % b)

Abs(a) == IF a < 0 THEN -a ELSE a

\* n/d in lowest terms with d >= 0; x/0 is Inf (numpy float division)
Rat(n, d) ==
    IF d = 0 THEN [n |-> IF n > 0 THEN 1 ELSE IF n < 0 THEN -1 ELSE 0, d |-> 0]
    ELSE LET g == GCD(Abs(n), Abs(d))
             s == IF d < 0 THEN -1 ELSE 1
         IN  [n |-> s * (n \div g), d |-> s * (d \div g)]

R(n) == [n |-> n, d |-> 1]

Inf == [n |-> 1, d |-> 0]

RDiv(x, y) == Rat(x.n * y.d, x.d * y.n)

RMul(x, y) == Rat(x.n * y.n, x.d * y.d)

RAdd(x, y) == Rat(x.n * y.d + y.n * x.d, x.d * y.d)

RGtZero(x) == x.n > 0

\* float("nan")
NaN == [n |-> 0, d |-> 0]

RECURSIVE SumSeq(_)
SumSeq(s) == IF s = <<>> THEN 0 ELSE Head(s) + SumSeq(Tail(s))

----------------------------------------------------------------------------
(* Label, Flow and the node classes of oemof.solph *)

Label(cat, tag, subtag, region) ==
    [cat |-> cat, tag |-> tag, subtag |-> subtag, region |-> region]

EmptyMap == [x \in {} |-> x]

\* Flow(): no keyword argument passed
Flow ==
    [nominal_value |-> <<>>, actual_value |-> <<>>, fixed |-> <<>>,
     emission |-> <<>>, variable_costs |-> <<>>, summed_max |-> <<>>]

Node(type, label, inputs, outputs, cf, storage) ==
    [type |-> type, label |-> label, inputs |-> inputs, outputs |-> outputs,
     conversion_factors |-> cf, storage |-> storage]

Bus(label) == Node("Bus", label, EmptyMap, EmptyMap, EmptyMap, <<>>)

Source(label, outputs) == Node("Source", label, EmptyMap, outputs, EmptyMap, <<>>)

Sink(label, inputs) == Node("Sink", label, inputs, EmptyMap, EmptyMap, <<>>)

Transformer(label, inputs, outputs, cf) ==
    Node("Transformer", label, inputs, outputs, cf, <<>>)

GenericStorage(label, inputs, outputs, params) ==
    Node("GenericStorage", label, inputs, outputs, EmptyMap, <<params>>)

\* Python's None stored as a dict value
NoneNode == Node("None", Label("", "", "", ""), EmptyMap, EmptyMap, EmptyMap, <<>>)

----------------------------------------------------------------------------
(* NodeDict *)

EmptyDict == EmptyMap

\* dict.get(key): the stored value, None when the key is absent
DictGet(d, key) == IF key \in DOMAIN d THEN d[key] ELSE NoneNode

\* dict.__setitem__
DictStore(d, key, item) ==
    [k \in DOMAIN d \cup {key} |-> IF k = key THEN item ELSE d[k]]

Res(d, e) == [nodes |-> d, err |-> e]

\* a plain dict's assignment: the stored value is replaced
SetItemOverwrite(d, key, item) == Res(DictStore(d, key, item), "none")

\* NodeDict.__setitem__
SetItem(d, key, item) ==
    IF DictGet(d, key) = NoneNode
    THEN Res(DictStore(d, key, item), "none")
    ELSE Res(d, "KeyError")

\* nodes[key] = item inside a builder: skipped once the builder has raised
Put(r, key, item) == IF r.err # "none" THEN r ELSE SetItem(r.nodes, key, item)

\* a read that does not look the key up
NeedUnchecked(r, key) == r

\* nodes[key] read inside a builder (dict.__getitem__): KeyError when absent
Need(r, key) ==
    IF r.err # "none" \/ key \in DOMAIN r.nodes THEN r ELSE Res(r.nodes, "KeyError")

\* the bus assigned without the membership test
GetOrCreateBusAlwaysInsert(r, key) == Put(r, key, Bus(key))

\* if key not in nodes: nodes[key] = Bus(label=key)
GetOrCreateBus(r, key) ==
    IF r.err # "none" \/ key \in DOMAIN r.nodes THEN r ELSE Put(r, key, Bus(key))

----------------------------------------------------------------------------
(* Names and table access *)

\* the regions with an electricity bus, in the column order of the tables
ElecRegions == <<"DE01", "DE02", "DE03">>

\* the volatile technologies, in column order
VSTypes == <<"wind", "solar">>

\* the fuels, in column order
Fuels == <<"oil", "natural gas">>

\* str.replace(" ", "_") on the names of the model
ReplaceSpace(s) == IF s = "natural gas" THEN "natural_gas" ELSE s

\* str.replace("_", " ") on the names of the model
ReplaceUnderscore(s) == IF s = "natural_gas" THEN "natural gas" ELSE s

\* d_region.replace("_demand", "") on the names of the model
StripDemand(s) == IF s = "DE_demand" THEN "DE" ELSE s

Range(s) == {s[i] : i \in DOMAIN s}

\* the pairs <<a, b>>, a from seq as, b from seq bs, a-major
RECURSIVE Pairs(_, _)
Pairs(as, bs) ==
    IF as = <<>> THEN <<>>
    ELSE [i \in 1..Len(bs) |-> <<Head(as), bs[i]>>] \o Pairs(Tail(as), bs)

\* level-0 keys of a two-level column index
Level0(table) == {c[1] : c \in DOMAIN table}

\* table[key].columns for a two-level column index, in the order of seq universe
SubColumns(table, key, universe) ==
    SelectSeq(universe, LAMBDA x : <<key, x>> \in DOMAIN table)

\* DataFrame.columns.swaplevel(): every column (a, b) becomes (b, a)
SwapLevel(table) ==
    [c \in {<<k[2], k[1]>> : k \in DOMAIN table} |-> table[<<c[2], c[1]>>]]

----------------------------------------------------------------------------
(* add_volatile_sources *)

\* a missing series always taken as [0], whatever the capacity
VolatileStepDefaulting(t, col, r) ==
    LET region == col[1]
        vs_type == col[2]
        vs_label == Label("source", "ee", vs_type, region)
        capacity == t.volatile_source[col]
        found == "volatile_series" \in DOMAIN t /\ col \in DOMAIN t.volatile_series
        feedin == IF found THEN t.volatile_series[col] ELSE <<0>>
        bus_label == Label("bus", "electricity", "all", region)
        r1 == GetOrCreateBus(r, bus_label)
        flow == [Flow EXCEPT !.actual_value = <<feedin>>,
                             !.nominal_value = <<R(capacity)>>,
                             !.fixed = <<TRUE>>,
                             !.emission = <<R(0)>>]
    IN  IF capacity * SumSeq(feedin) > 0
        THEN Put(r1, vs_label, Source(vs_label, bus_label :> flow))
        ELSE r1

VolatileStep(t, col, r) ==
    LET region == col[1]
        vs_type == col[2]
        vs_label == Label("source", "ee", vs_type, region)
        capacity == t.volatile_source[col]
        found == "volatile_series" \in DOMAIN t /\ col \in DOMAIN t.volatile_series
        feedin == IF found THEN t.volatile_series[col] ELSE <<0>>
        bus_label == Label("bus", "electricity", "all", region)
        r1 == GetOrCreateBus(r, bus_label)
        flow == [Flow EXCEPT !.actual_value = <<feedin>>,
                             !.nominal_value = <<R(capacity)>>,
                             !.fixed = <<TRUE>>,
                             !.emission = <<R(0)>>]
    IN  IF ~found /\ capacity > 0 THEN Res(r.nodes, "ValueError")
        ELSE IF capacity * SumSeq(feedin) > 0
             THEN Put(r1, vs_label, Source(vs_label, bus_label :> flow))
             ELSE r1

RECURSIVE VolatileLoop(_, _, _)
VolatileLoop(t, cols, r) ==
    IF cols = <<>> \/ r.err # "none" THEN r
    ELSE VolatileLoop(t, Tail(cols), VolatileStep(t, Head(cols), r))

add_volatile_sources(t, d) ==
    IF "volatile_source" \notin DOMAIN t THEN Res(d, "KeyError")
    ELSE VolatileLoop(t,
            SelectSeq(Pairs(ElecRegions, VSTypes),
                      LAMBDA c : c \in DOMAIN t.volatile_source),
            Res(d, "none"))

----------------------------------------------------------------------------
(* create_fuel_bus_with_source *)

create_fuel_bus_with_source(r, fuel, region, data) ==
    LET bus_label == Label("bus", "commodity", ReplaceSpace(fuel), region)
        cs_label == Label("source", "commodity", ReplaceSpace(fuel), region)
        r1 == GetOrCreateBus(r, bus_label)
        name == ReplaceUnderscore(fuel)
    IN  IF r1.err # "none" \/ cs_label \in DOMAIN r1.nodes THEN r1
        ELSE IF name \notin DOMAIN data THEN Res(r1.nodes, "KeyError")
        ELSE Put(r1, cs_label,
                 Source(cs_label,
                        bus_label :> [Flow EXCEPT
                            !.variable_costs = <<data[name].costs>>,
                            !.emission = <<data[name].emission>>]))

----------------------------------------------------------------------------
(* add_decentralised_heating_systems *)

DecHeatFuel(t, d_region, data_name, fuel, r) ==
    LET cs == t.commodity_source
        dts == t.demand_series
        dh == t.decentralised_heat
        region_name == StripDemand(d_region)
        src == dh[<<data_name, fuel>>].source
        bus_label == Label("bus", "commodity", ReplaceSpace(src), region_name)
        r1 == IF bus_label \notin DOMAIN r.nodes
              THEN create_fuel_bus_with_source(r, src, region_name, cs)
              ELSE r
        heat_bus_label == Label("bus", "heat", ReplaceSpace(fuel), region_name)
        r2 == Put(r1, heat_bus_label, Bus(heat_bus_label))
        trsf_label == Label("trsf", "heat", ReplaceSpace(fuel), region_name)
        efficiency == dh[<<data_name, fuel>>].efficiency
        r3 == Put(Need(r2, bus_label), trsf_label,
                  Transformer(trsf_label, bus_label :> Flow, heat_bus_label :> Flow,
                              heat_bus_label :> efficiency))
        d_heat_demand_label == Label("demand", "heat", ReplaceSpace(fuel), region_name)
    IN  Put(r3, d_heat_demand_label,
            Sink(d_heat_demand_label,
                 heat_bus_label :> [Flow EXCEPT
                     !.actual_value = <<dts[<<d_region, fuel>>]>>,
                     !.nominal_value = <<R(1)>>,
                     !.fixed = <<TRUE>>]))

RECURSIVE DecHeatFuels(_, _, _, _, _)
DecHeatFuels(t, d_region, data_name, fuels, r) ==
    IF fuels = <<>> \/ r.err # "none" THEN r
    ELSE DecHeatFuels(t, d_region, data_name, Tail(fuels),
                      DecHeatFuel(t, d_region, data_name, Head(fuels), r))

DecHeatRegion(t, d_region, r) ==
    LET dts == t.demand_series
        dh == t.decentralised_heat
        region_name == StripDemand(d_region)
        data_name == IF region_name \notin Level0(dh) THEN "DE_demand" ELSE d_region
        columns == SubColumns(dh, data_name, Fuels)
    IN  IF data_name \notin Level0(dh) THEN Res(r.nodes, "KeyError")
        ELSE IF columns # <<>> /\ d_region \notin Level0(dts)
             THEN Res(r.nodes, "KeyError")
        ELSE DecHeatFuels(t, d_region, data_name,
                 SelectSeq(columns, LAMBDA f : <<d_region, f>> \in DOMAIN dts), r)

RECURSIVE DecHeatLoop(_, _, _)
DecHeatLoop(t, regions, r) ==
    IF regions = <<>> \/ r.err # "none" THEN r
    ELSE DecHeatLoop(t, Tail(regions), DecHeatRegion(t, Head(regions), r))

\* list({"DE_demand"}.union(set(extra_regions))), taken in the order DE_demand,
\* then the extra regions in column order
DemandRegions(extra) ==
    <<"DE_demand">> \o SelectSeq(ElecRegions, LAMBDA x : x \in extra)

add_decentralised_heating_systems(t, d, extra) ==
    IF {"commodity_source", "demand_series", "decentralised_heat"} \subseteq DOMAIN t
    THEN DecHeatLoop(t, DemandRegions(extra), Res(d, "none"))
    ELSE Res(d, "KeyError")

----------------------------------------------------------------------------
(* add_electricity_demand, add_district_heating_systems *)

\* the regions that may head a demand column, in column order
DemandColumns == ElecRegions

\* the bus made before the sum is looked at, as add_volatile_sources does
DemandStepBusFirst(dts, kind, tag, subtag, region, r) ==
    LET bus_label == Label("bus", tag, subtag, region)
        demand_label == Label("demand", tag, subtag, region)
        r1 == GetOrCreateBus(r, bus_label)
    IN  IF SumSeq(dts[<<kind, region>>]) > 0
        THEN Put(r1, demand_label,
                 Sink(demand_label,
                      bus_label :> [Flow EXCEPT
                          !.actual_value = <<dts[<<kind, region>>]>>,
                          !.nominal_value = <<R(1)>>,
                          !.fixed = <<TRUE>>]))
        ELSE r1

DemandStep(dts, kind, tag, subtag, region, r) ==
    LET bus_label == Label("bus", tag, subtag, region)
        demand_label == Label("demand", tag, subtag, region)
        r1 == GetOrCreateBus(r, bus_label)
    IN  IF SumSeq(dts[<<kind, region>>]) > 0
        THEN Put(r1, demand_label,
                 Sink(demand_label,
                      bus_label :> [Flow EXCEPT
                          !.actual_value = <<dts[<<kind, region>>]>>,
                          !.nominal_value = <<R(1)>>,
                          !.fixed = <<TRUE>>]))
        ELSE r

RECURSIVE DemandLoop(_, _, _, _, _, _)
DemandLoop(dts, kind, tag, subtag, regions, r) ==
    IF regions = <<>> \/ r.err # "none" THEN r
    ELSE DemandLoop(dts, kind, tag, subtag, Tail(regions),
                    DemandStep(dts, kind, tag, subtag, Head(regions), r))

\* the loop over dts[kind].columns of both demand builders
DemandBuilder(dts, kind, tag, subtag, d) ==
    IF kind \notin Level0(dts) THEN Res(d, "KeyError")
    ELSE DemandLoop(dts, kind, tag, subtag, SubColumns(dts, kind, DemandColumns),
                    Res(d, "none"))

\* dts.columns = dts.columns.swaplevel(): the table of the collection is changed
SwapDemandSeries(t) ==
    IF "demand_series" \in DOMAIN t
    THEN [t EXCEPT !.demand_series = SwapLevel(t.demand_series)]
    ELSE t

\* add_electricity_demand, after the swap (t is the collection as swapped)
add_electricity_demand(t, d) ==
    IF "demand_series" \notin DOMAIN t THEN Res(d, "KeyError")
    ELSE DemandBuilder(t.demand_series, "electrical_load", "electricity", "all", d)

add_district_heating_systems(t, d) ==
    IF "demand_series" \notin DOMAIN t THEN Res(d, "KeyError")
    ELSE DemandBuilder(t.demand_series, "district heating", "heat", "district", d)

----------------------------------------------------------------------------
(* add_transmission_lines_between_electricity_nodes *)

\* a line that gets or creates the buses it joins
TransmissionLineCreating(values, line, r) ==
    LET line_label == Label("line", "electricity", line[1], line[2])
        bus_label_in == Label("bus", "electricity", "all", line[1])
        bus_label_out == Label("bus", "electricity", "all", line[2])
        outflow == IF values.capacity # Inf
                   THEN [Flow EXCEPT !.nominal_value = <<values.capacity>>]
                   ELSE Flow
    IN  Put(GetOrCreateBus(GetOrCreateBus(r, bus_label_in), bus_label_out), line_label,
            Transformer(line_label, bus_label_in :> Flow, bus_label_out :> outflow,
                        bus_label_out :> values.efficiency))

TransmissionLine(values, line, r) ==
    LET line_label == Label("line", "electricity", line[1], line[2])
        bus_label_in == Label("bus", "electricity", "all", line[1])
        bus_label_out == Label("bus", "electricity", "all", line[2])
        outflow == IF values.capacity # Inf
                   THEN [Flow EXCEPT !.nominal_value = <<values.capacity>>]
                   ELSE Flow
    IN  IF r.err # "none" THEN r
        ELSE IF bus_label_in \notin DOMAIN r.nodes THEN Res(r.nodes, "ValueError")
        ELSE IF bus_label_out \notin DOMAIN r.nodes THEN Res(r.nodes, "ValueError")
        ELSE Put(r, line_label,
                 Transformer(line_label, bus_label_in :> Flow,
                             bus_label_out :> outflow,
                             bus_label_out :> values.efficiency))

\* one row built in the direction of its index only
TransmissionRowOneWay(values, r) ==
    TransmissionLine(values, <<values.idx[1], values.idx[2]>>, r)

\* one row: idx.split("-") gives b1, b2; both directions are built
TransmissionRow(values, r) ==
    LET b1 == values.idx[1]
        b2 == values.idx[2]
    IN  TransmissionLine(values, <<b2, b1>>, TransmissionLine(values, <<b1, b2>>, r))

RECURSIVE TransmissionLoop(_, _)
TransmissionLoop(rows, r) ==
    IF rows = <<>> \/ r.err # "none" THEN r
    ELSE TransmissionLoop(Tail(rows), TransmissionRow(Head(rows), r))

add_transmission_lines_between_electricity_nodes(t, d) ==
    IF "transmission" \notin DOMAIN t THEN Res(d, "KeyError")
    ELSE TransmissionLoop(t.transmission, Res(d, "none"))

----------------------------------------------------------------------------
(* add_power_and_heat_plants *)

PlantPP(params, fuel, region, bus_fuel, r) ==
    LET bus_elec == Label("bus", "electricity", "all", region)
        outflow == IF params.limit_elec_pp = Inf
                   THEN [Flow EXCEPT !.nominal_value = <<params.capacity>>]
                   ELSE [Flow EXCEPT
                            !.nominal_value = <<params.capacity>>,
                            !.summed_max = <<RDiv(params.limit_elec_pp, params.capacity)>>]
        trsf_label == Label("trsf", "pp", ReplaceSpace(fuel), region)
    IN  IF ~RGtZero(params.capacity) THEN r
        ELSE Put(Need(Need(r, bus_fuel), bus_elec), trsf_label,
                 Transformer(trsf_label, bus_fuel :> Flow, bus_elec :> outflow,
                             bus_elec :> params.efficiency))

\* the input capacity taken as the heat capacity itself
ChpNominalValueNoSplit(params) == params.capacity_heat_chp

\* the input capacity of a chp plant
ChpNominalValue(params) == RDiv(params.capacity_heat_chp, params.efficiency_heat_chp)

\* smax of a chp plant
ChpSummedMax(params) ==
    RDiv(RDiv(params.limit_heat_chp, params.efficiency_heat_chp),
         RDiv(params.capacity_heat_chp, params.efficiency_heat_chp))

PlantCHP(params, fuel, region, bus_fuel, r) ==
    LET bus_elec == Label("bus", "electricity", "all", region)
        bus_heat == Label("bus", "heat", "district", region)
        trsf_label == Label("trsf", "chp", ReplaceSpace(fuel), region)
        inflow == [Flow EXCEPT !.nominal_value = <<ChpNominalValue(params)>>,
                               !.summed_max = <<ChpSummedMax(params)>>]
    IN  IF ~RGtZero(params.capacity_heat_chp) THEN r
        ELSE Put(Need(Need(Need(r, bus_fuel), bus_elec), bus_heat), trsf_label,
                 Transformer(trsf_label, bus_fuel :> inflow,
                             (bus_elec :> Flow) @@ (bus_heat :> Flow),
                             (bus_elec :> params.efficiency_elec_chp)
                                @@ (bus_heat :> params.efficiency_heat_chp)))

PlantHP(params, fuel, region, bus_fuel, r) ==
    LET bus_heat == Label("bus", "heat", "district", region)
        trsf_label == Label("trsf", "hp", ReplaceSpace(fuel), region)
        outflow == [Flow EXCEPT
                       !.nominal_value = <<params.capacity_hp>>,
                       !.summed_max = <<RDiv(params.limit_hp, params.capacity_hp)>>]
    IN  IF ~RGtZero(params.capacity_hp) THEN r
        ELSE Put(Need(Need(r, bus_fuel), bus_heat), trsf_label,
                 Transformer(trsf_label, bus_fuel :> Flow, bus_heat :> outflow,
                             bus_heat :> params.efficiency_hp))

\* the fuel bus of (region, fuel)
PlantFuelBus(fuel, region, extra) ==
    IF region \in extra
    THEN Label("bus", "commodity", ReplaceSpace(fuel), region)
    ELSE Label("bus", "commodity", ReplaceSpace(fuel), "DE")

\* the three sub-cases taken as alternatives: the first that applies is built
PlantStepExclusive(t, col, extra, r) ==
    LET region == col[1]
        fuel == col[2]
        cs == t.commodity_source
        bus_fuel == PlantFuelBus(fuel, region, extra)
        r1 == IF region \in extra
              THEN create_fuel_bus_with_source(r, fuel, region, cs)
              ELSE IF bus_fuel \notin DOMAIN r.nodes
                   THEN create_fuel_bus_with_source(r, ReplaceSpace(fuel), "DE", cs)
                   ELSE r
        params == t.transformer[col]
    IN  IF RGtZero(params.capacity) THEN PlantPP(params, fuel, region, bus_fuel, r1)
        ELSE IF RGtZero(params.capacity_heat_chp)
             THEN PlantCHP(params, fuel, region, bus_fuel, r1)
             ELSE PlantHP(params, fuel, region, bus_fuel, r1)

PlantStep(t, col, extra, r) ==
    LET region == col[1]
        fuel == col[2]
        cs == t.commodity_source
        bus_fuel == PlantFuelBus(fuel, region, extra)
        r1 == IF region \in extra
              THEN create_fuel_bus_with_source(r, fuel, region, cs)
              ELSE IF bus_fuel \notin DOMAIN r.nodes
                   THEN create_fuel_bus_with_source(r, ReplaceSpace(fuel), "DE", cs)
                   ELSE r
        params == t.transformer[col]
    IN  PlantHP(params, fuel, region, bus_fuel,
            PlantCHP(params, fuel, region, bus_fuel,
                PlantPP(params, fuel, region, bus_fuel, r1)))

RECURSIVE PlantLoop(_, _, _, _)
PlantLoop(t, cols, extra, r) ==
    IF cols = <<>> \/ r.err # "none" THEN r
    ELSE PlantLoop(t, Tail(cols), extra, PlantStep(t, Head(cols), extra, r))

add_power_and_heat_plants(t, d, extra) ==
    IF {"transformer", "commodity_source"} \subseteq DOMAIN t
    THEN PlantLoop(t,
            SelectSeq(Pairs(ElecRegions, Fuels), LAMBDA c : c \in DOMAIN t.transformer),
            extra, Res(d, "none"))
    ELSE Res(d, "KeyError")

----------------------------------------------------------------------------
(* add_storages *)

\* storages.columns = storages.columns.swaplevel(): the table is changed
SwapStorages(t) ==
    IF "storages" \in DOMAIN t
    THEN [t EXCEPT !.storages = SwapLevel(t.storages)]
    ELSE t

StorageStep(storages, region, r) ==
    LET storage_label == Label("storage", "electricity", "phes", region)
        bus_label == Label("bus", "electricity", "all", region)
        params == storages[<<"phes", region>>]
    IN  Put(Need(r, bus_label), storage_label,
            GenericStorage(storage_label,
                bus_label :> [Flow EXCEPT !.nominal_value = <<params.pump>>],
                bus_label :> [Flow EXCEPT !.nominal_value = <<params.turbine>>],
                [nominal_storage_capacity |-> <<params.energy>>,
                 loss_rate |-> <<R(0)>>,
                 initial_storage_level |-> <<>>,
                 inflow_conversion_factor |-> <<params.pump_eff>>,
                 outflow_conversion_factor |-> <<params.turbine_eff>>]))

RECURSIVE StorageLoop(_, _, _)
StorageLoop(storages, regions, r) ==
    IF regions = <<>> \/ r.err # "none" THEN r
    ELSE StorageLoop(storages, Tail(regions), StorageStep(storages, Head(regions), r))

\* add_storages, after the swap (t is the collection as swapped)
add_storages(t, d) ==
    IF "phes" \notin Level0(t.storages) THEN Res(d, "KeyError")
    ELSE StorageLoop(t.storages, SubColumns(t.storages, "phes", ElecRegions),
                     Res(d, "none"))

----------------------------------------------------------------------------
(* add_conventional_mobility *)

\* the liquid fuels of the mobility tables, in column order
MobilityFuels == <<"diesel", "petrol">>

RECURSIVE EnergyOfFuel(_, _, _, _)
\* one column of energy_tp.sum(): sum over the vehicle types (rows) of
\* mileage * spec_demand * energy_content.iloc[0] / 10 ** 6
EnergyOfFuel(mileage, spec_demand, content, i) ==
    IF i > Len(mileage) THEN R(0)
    ELSE RAdd(RDiv(RMul(RMul(R(mileage[i]), spec_demand[i]), content), R(10 ^ 6)),
              EnergyOfFuel(mileage, spec_demand, content, i + 1))

\* energy: a Series indexed by fuel
MobilityEnergy(t) ==
    [f \in DOMAIN t.mobility_mileage |->
        EnergyOfFuel(t.mobility_mileage[f], t.mobility_spec_demand[f],
                     t.mobility_energy_content[f], 1)]

\* pd.Series(energy / len(idx), index=idx, dtype=float): the data is a Series
\* labelled by fuel, so it is re-indexed by the time index idx: the entry of a
\* time stamp is the entry of the data under that label, NaN when the data has
\* no such label
MobilityFixValue(t, idx) ==
    LET data == [f \in DOMAIN MobilityEnergy(t) |-> RDiv(MobilityEnergy(t)[f], R(Len(idx)))]
    IN  [i \in 1..Len(idx) |-> IF idx[i] \in DOMAIN data THEN data[idx[i]] ELSE NaN]

\* table_collection["demand_series"].index: the labels of the NSteps time steps
TimeIndex == [i \in 1..NSteps |-> ToString(i)]

MobilityStep(t, idx, fuel, r) ==
    LET oil_key == Label("bus", "commodity", "oil", "DE")
        fuel_label == Label("Usage", "mobility", fuel, "DE")
    IN  Put(Need(r, oil_key), fuel_label,
            Sink(fuel_label,
                 oil_key :> [Flow EXCEPT !.actual_value = <<MobilityFixValue(t, idx)>>]))

add_conventional_mobility(t, d) ==
    IF {"mobility_mileage", "mobility_spec_demand", "mobility_energy_content",
        "demand_series"} \subseteq DOMAIN t
    THEN LET idx == TimeIndex
         IN  MobilityStep(t, idx, "petrol", MobilityStep(t, idx, "diesel", Res(d, "none")))
    ELSE Res(d, "KeyError")

----------------------------------------------------------------------------
(* add_shortage_excess *)

\* "bus" in key.cat, on the categories the builders use (bus, source, trsf,
\* demand, line, storage, Usage, excess, shortage): only "bus" holds "bus"
HasBus(cat) == cat = "bus"

\* the electricity buses only
BusKeysElectricity(d) == {key \in DOMAIN d : HasBus(key.cat) /\ key.tag = "electricity"}

\* bus_keys
BusKeys(d) == {key \in DOMAIN d : HasBus(key.cat)}

ShortageExcessStep(key, r) ==
    LET excess_label == Label("excess", key.tag, key.subtag, key.region)
        shortage_label == Label("shortage", key.tag, key.subtag, key.region)
        r1 == Put(Need(r, key), excess_label, Sink(excess_label, key :> Flow))
    IN  Put(Need(r1, key), shortage_label,
            Source(shortage_label,
                   key :> [Flow EXCEPT !.variable_costs = <<R(900)>>]))

RECURSIVE ShortageExcessLoop(_, _)
ShortageExcessLoop(keys, r) ==
    IF keys = {} \/ r.err # "none" THEN r
    ELSE LET key == CHOOSE k \in keys : TRUE
         IN  ShortageExcessLoop(keys \ {key}, ShortageExcessStep(key, r))

add_shortage_excess(d) == ShortageExcessLoop(BusKeys(d), Res(d, "none"))

----------------------------------------------------------------------------
(* Scenario.initialise_energy_system *)

\* self.year: an int, None, or a str spelling the int val
IntYear(y) == [kind |-> "int", val |-> y]
NoYear == [kind |-> "none", val |-> 0]
StrYear(y) == [kind |-> "str", val |-> y]

\* the Julian rule: every fourth year
IsLeapJulian(y) == y % 4 = 0

\* calendar.isleap
IsLeap(y) == y % 4 = 0 /\ (y % 100 # 0 \/ y % 400 = 0)

NoEs == [exists |-> FALSE, steps |-> 0, nodes |-> {}]

\* the value returned, or the exception raised: calendar.isleap raises TypeError
\* on None and on a str (year % 4); pd.date_range raises ValueError on the
\* date "1/1/None"
initialise_energy_system(dbg, y) ==
    IF dbg
    THEN IF y.kind = "none" THEN [err |-> "ValueError", es |-> NoEs]
         ELSE [err |-> "none", es |-> [exists |-> TRUE, steps |-> 3, nodes |-> {}]]
    ELSE IF y.kind # "int" THEN [err |-> "TypeError", es |-> NoEs]
         ELSE [err |-> "none",
               es |-> [exists |-> TRUE,
                       steps |-> IF IsLeap(y.val) THEN 8784 ELSE 8760,
                       nodes |-> {}]]

----------------------------------------------------------------------------
(* State machine *)

NoLabel == Label("", "", "", "")

Op(name, key, item) == [op |-> name, key |-> key, item |-> item, before |-> nodes]

\* Scenario.initialise_es(year): self.year = year; self.es = initialise_energy_system()
InitialiseEs(y) ==
    LET set == IF y.kind # "none" THEN y ELSE year
        h == initialise_energy_system(debug, set)
    IN  /\ pc = "horizon"
        /\ year' = set
        /\ err' = h.err
        /\ es' = IF h.err = "none" THEN h.es ELSE es
        /\ pc' = "returned"
        /\ last' = Op("initialise_es", NoLabel, NoneNode)
        /\ UNCHANGED <<tc, extra_regions, debug, nodes, trace, runs, es0>>

\* nodes[key] = item on a NodeDict
RegistryInsert(key, item) ==
    LET r == SetItem(nodes, key, item)
    IN  /\ pc = "registry"
        /\ runs < MaxInserts
        /\ nodes' = r.nodes
        /\ err' = r.err
        /\ runs' = runs + 1
        /\ last' = Op("setitem", key, item)
        /\ UNCHANGED <<tc, extra_regions, year, debug, es, pc, trace, es0>>

\* table2es with the registry kept from one create_nodes call to the next
Table2esKeepingNodes ==
    LET h == IF es.exists THEN [err |-> "none", es |-> es]
             ELSE initialise_energy_system(debug, year)
    IN  /\ pc \in {"idle", "done", "failed"}
        /\ runs < MaxRuns
        /\ runs' = runs + 1
        /\ err' = h.err
        /\ es' = IF h.err = "none" THEN h.es ELSE es
        /\ es0' = es.nodes
        /\ pc' = IF h.err = "none" THEN "vs" ELSE "failed"
        /\ trace' = <<>>
        /\ last' = Op("table2es", NoLabel, NoneNode)
        /\ UNCHANGED <<tc, extra_regions, year, debug, nodes>>

\* table2es up to the call of create_nodes, and nodes = NodeDict() in it
Table2es ==
    LET h == IF es.exists THEN [err |-> "none", es |-> es]
             ELSE initialise_energy_system(debug, year)
    IN  /\ pc \in {"idle", "done", "failed"}
        /\ runs < MaxRuns
        /\ runs' = runs + 1
        /\ err' = h.err
        /\ es' = IF h.err = "none" THEN h.es ELSE es
        /\ es0' = es.nodes
        /\ pc' = IF h.err = "none" THEN "vs" ELSE "failed"
        /\ nodes' = EmptyDict
        /\ trace' = <<>>
        /\ last' = Op("table2es", NoLabel, NoneNode)
        /\ UNCHANGED <<tc, extra_regions, year, debug>>

\* a builder call whose nodes are added to the energy system as it returns
StepHandingOver(name, t, r, next) ==
    /\ tc' = t
    /\ nodes' = r.nodes
    /\ err' = r.err
    /\ pc' = IF r.err = "none" THEN next ELSE "failed"
    /\ trace' = Append(trace, name)
    /\ last' = Op(name, NoLabel, NoneNode)
    /\ es' = [es EXCEPT !.nodes = @ \cup Range(r.nodes)]
    /\ UNCHANGED <<extra_regions, year, debug, runs, es0>>

\* the effect of one builder call of create_nodes: name: the builder; t: the
\* table collection as the builder leaves it; r: its result; next: the position
\* after it
Step(name, t, r, next) ==
    /\ tc' = t
    /\ nodes' = r.nodes
    /\ err' = r.err
    /\ pc' = IF r.err = "none" THEN next ELSE "failed"
    /\ trace' = Append(trace, name)
    /\ last' = Op(name, NoLabel, NoneNode)
    /\ UNCHANGED <<extra_regions, year, debug, es, runs, es0>>

\* the two optional builders looked at in the other order
AfterPlantsMobilityFirst ==
    IF "mobility_mileage" \in DOMAIN tc THEN "mob"
    ELSE IF "storages" \in DOMAIN tc THEN "st" ELSE "se"

\* the position after add_power_and_heat_plants
AfterPlants == IF "storages" \in DOMAIN tc THEN "st"
               ELSE IF "mobility_mileage" \in DOMAIN tc THEN "mob" ELSE "se"

\* the position after add_storages
AfterStorages == IF "mobility_mileage" \in DOMAIN tc THEN "mob" ELSE "se"

VolatileSources ==
    /\ pc = "vs"
    /\ Step("vs", tc, add_volatile_sources(tc, nodes), "dh")

DecentralisedHeat ==
    /\ pc = "dh"
    /\ Step("dh", tc, add_decentralised_heating_systems(tc, nodes, extra_regions), "ed")

ElectricityDemand ==
    /\ pc = "ed"
    /\ Step("ed", SwapDemandSeries(tc),
            add_electricity_demand(SwapDemandSeries(tc), nodes), "dhs")

DistrictHeating ==
    /\ pc = "dhs"
    /\ Step("dhs", tc, add_district_heating_systems(tc, nodes), "tl")

Transmission ==
    /\ pc = "tl"
    /\ Step("tl", tc, add_transmission_lines_between_electricity_nodes(tc, nodes), "pp")

Plants ==
    /\ pc = "pp"
    /\ Step("pp", tc, add_power_and_heat_plants(tc, nodes, extra_regions), AfterPlants)

Storages ==
    /\ pc = "st"
    /\ Step("st", SwapStorages(tc), add_storages(SwapStorages(tc), nodes), AfterStorages)

Mobility ==
    /\ pc = "mob"
    /\ Step("mob", tc, add_conventional_mobility(tc, nodes), "se")

\* add_shortage_excess(nodes); return nodes
ShortageExcess ==
    /\ pc = "se"
    /\ Step("se", tc, add_shortage_excess(nodes), "add")

\* self.es.add(*nodes.values()) and the return of table2es
EsAdd ==
    /\ pc = "add"
    /\ es' = [es EXCEPT !.nodes = @ \cup Range(nodes)]
    /\ pc' = "done"
    /\ last' = Op("add", NoLabel, NoneNode)
    /\ UNCHANGED <<tc, extra_regions, year, debug, nodes, err, trace, runs, es0>>

\* a builder function called directly on a registry, outside create_nodes; a
\* caller that catches the exception goes on with the registry as it was left
Direct(name, t, r) ==
    /\ pc = "direct"
    /\ runs < MaxCalls
    /\ runs' = runs + 1
    /\ tc' = t
    /\ nodes' = r.nodes
    /\ err' = r.err
    /\ trace' = Append(trace, name)
    /\ last' = Op(name, NoLabel, NoneNode)
    /\ UNCHANGED <<extra_regions, year, debug, es, pc, es0>>

DirectVolatileSources ==
    /\ pc = "direct"
    /\ Direct("vs", tc, add_volatile_sources(tc, nodes))

DirectElectricityDemand ==
    /\ pc = "direct"
    /\ Direct("ed", SwapDemandSeries(tc), add_electricity_demand(SwapDemandSeries(tc), nodes))

DirectTransmission ==
    /\ pc = "direct"
    /\ Direct("tl", tc, add_transmission_lines_between_electricity_nodes(tc, nodes))

----------------------------------------------------------------------------
(* The scenarios the model is run on *)

ZeroSeries == [i \in 1..NSteps |-> 0]
PulseSeries == [i \in 1..NSteps |-> IF i = 1 THEN MaxVal ELSE 0]
FlatSeries == [i \in 1..NSteps |-> MaxVal]
SeriesSet == {ZeroSeries, PulseSeries, FlatSeries}

\* the functions from a subset of S to V
PartialFns(S, V) == UNION {[D -> V] : D \in SUBSET S}

\* the collection without the tables named
Drop(t, names) == [k \in DOMAIN t \ names |-> t[k]]

DE01 == "DE01"
DE02 == "DE02"
DE03 == "DE03"

BaseParams ==
    [capacity |-> R(100), capacity_heat_chp |-> R(800), capacity_hp |-> R(50),
     limit_elec_pp |-> Inf, limit_heat_chp |-> R(1600), limit_hp |-> R(100),
     efficiency |-> Rat(2, 5), efficiency_elec_chp |-> Rat(2, 5),
     efficiency_heat_chp |-> Rat(1, 2), efficiency_hp |-> Rat(9, 10)]

BaseStorage ==
    [pump |-> R(10), turbine |-> R(12), energy |-> R(80),
     pump_eff |-> Rat(9, 10), turbine_eff |-> Rat(4, 5)]

BaseHeat(src) == [source |-> src, efficiency |-> Rat(9, 10)]

BaseDemand ==
    [c \in {<<DE01, "electrical_load">>, <<DE02, "electrical_load">>,
            <<DE03, "electrical_load">>,
            <<DE01, "district heating">>, <<DE02, "district heating">>,
            <<"DE_demand", "oil">>} |-> FlatSeries]

\* a collection every builder accepts
BaseTC ==
    [volatile_source |-> [c \in {<<DE01, "wind">>, <<DE02, "wind">>} |-> MaxCap],
     volatile_series |-> [c \in {<<DE01, "wind">>, <<DE02, "wind">>} |-> FlatSeries],
     demand_series |-> BaseDemand,
     decentralised_heat |-> (<<"DE_demand", "oil">> :> BaseHeat("oil")),
     commodity_source |->
        [f \in {"oil", "natural gas"} |-> [costs |-> R(10), emission |-> R(200)]],
     transmission |->
        <<[idx |-> <<DE01, DE02>>, capacity |-> R(MaxCap), efficiency |-> Rat(9, 10)]>>,
     transformer |-> (<<DE01, "natural gas">> :> BaseParams),
     storages |-> (<<DE01, "phes">> :> BaseStorage),
     mobility_mileage |-> [f \in Range(MobilityFuels) |-> <<1000000>>],
     mobility_spec_demand |-> [f \in Range(MobilityFuels) |-> <<Rat(7, 100)>>],
     mobility_energy_content |-> [f \in Range(MobilityFuels) |-> R(35)]]

Scenario(t, extra, y, dbg) == [tc |-> t, extra_regions |-> extra, year |-> y, debug |-> dbg]

\* the demand table with the columns of kind replaced by those of cols
WithDemand(dts, kind, cols) ==
    LET keep == {c \in DOMAIN dts : c[2] # kind}
        new == {<<x, kind>> : x \in DOMAIN cols}
    IN  [c \in keep \cup new |-> IF c \in new THEN cols[c[1]] ELSE dts[c]]

\* volatile sources and electricity demand
VolatileScenarios ==
    {Scenario([BaseTC EXCEPT !.volatile_source = vs, !.volatile_series = ser,
                             !.demand_series = WithDemand(BaseDemand, "electrical_load", el)],
              {}, IntYear(2016), FALSE) :
        vs \in {(<<DE02, "wind">> :> MaxCap) @@ x :
                    x \in PartialFns({<<DE01, "wind">>, <<DE01, "solar">>, <<DE03, "wind">>},
                                     0..MaxCap)},
        ser \in {(<<DE02, "wind">> :> FlatSeries) @@ x :
                    x \in PartialFns({<<DE01, "wind">>, <<DE03, "wind">>}, SeriesSet)},
        el \in {(DE02 :> FlatSeries) @@ x : x \in PartialFns({DE01}, SeriesSet)}}
    \cup {Scenario(Drop(BaseTC, {"volatile_series"}), {}, IntYear(2016), FALSE)}

\* decentralised and district heat
HeatScenarios ==
    {Scenario([BaseTC EXCEPT
                  !.decentralised_heat = [c \in cols |-> BaseHeat(src)],
                  !.demand_series =
                      [c \in (DOMAIN WithDemand(BaseDemand, "district heating", dh)
                                \ {<<"DE_demand", "oil">>}) \cup fc |->
                          IF c \in fc THEN FlatSeries
                          ELSE WithDemand(BaseDemand, "district heating", dh)[c]]],
              extra, IntYear(2016), FALSE) :
        cols \in SUBSET {<<"DE_demand", "oil">>, <<"DE_demand", "natural gas">>, <<DE01, "oil">>},
        src \in {"oil", "natural gas"},
        fc \in SUBSET {<<"DE_demand", "oil">>, <<"DE_demand", "natural gas">>, <<DE01, "oil">>},
        dh \in {(DE02 :> FlatSeries) @@ x : x \in PartialFns({DE01}, {ZeroSeries, FlatSeries})},
        extra \in {{}, {DE01}}}

Rows == [idx : {<<DE01, DE02>>, <<DE02, DE01>>, <<DE01, DE03>>, <<DE02, DE03>>},
         capacity : {R(MaxCap), Inf}, efficiency : {Rat(9, 10), R(1)}]

\* the tables of at most MaxLines rows that name every line once
TransmissionTables ==
    {rows \in UNION {[1..n -> Rows] : n \in 0..MaxLines} :
        \A i, j \in DOMAIN rows :
            i # j => {rows[i].idx[1], rows[i].idx[2]} # {rows[j].idx[1], rows[j].idx[2]}}

\* the demand table and the volatile tables without the regions of a set
WithoutRegions(t, regions) ==
    [t EXCEPT
        !.volatile_source = [c \in {x \in DOMAIN @ : x[1] \notin regions} |-> @[c]],
        !.demand_series = [c \in {x \in DOMAIN @ : x[1] \notin regions} |-> @[c]]]

\* transmission lines, with and without the buses they join
TransmissionScenarios ==
    {Scenario([WithoutRegions(BaseTC, busless) EXCEPT !.transmission = rows],
              {}, IntYear(2016), FALSE) :
        rows \in TransmissionTables,
        busless \in SUBSET {DE01, DE02, DE03}}

ParamSet ==
    {[BaseParams EXCEPT !.capacity = c, !.capacity_heat_chp = chp, !.capacity_hp = hp,
                        !.limit_elec_pp = le, !.limit_heat_chp = lh,
                        !.efficiency_heat_chp = eh] :
        c \in {R(0), R(100)}, chp \in {R(0), R(800)}, hp \in {R(0), R(50)},
        le \in {Inf, R(200)}, lh \in {R(1600), R(1000)}, eh \in {Rat(1, 2), Rat(3, 10)}}

\* power, heat and chp plants
PlantScenarios ==
    {Scenario([BaseTC EXCEPT
                  !.transformer = p1 @@ p2,
                  !.demand_series = WithDemand(BaseDemand, "district heating", dh)],
              extra, IntYear(2016), FALSE) :
        p1 \in PartialFns({<<DE01, "natural gas">>}, ParamSet),
        p2 \in PartialFns({<<DE02, "oil">>}, {BaseParams}),
        dh \in {(DE02 :> FlatSeries) @@ x : x \in PartialFns({DE01}, {FlatSeries})},
        extra \in {{}, {DE01}}}

\* storages and mobility, present or not
OptionalScenarios ==
    {Scenario(Drop([WithoutRegions(BaseTC, busless) EXCEPT
                       !.storages = [c \in {<<x, "phes">> : x \in regions} |-> BaseStorage],
                       !.decentralised_heat = [c \in cols |-> BaseHeat("oil")]],
                   absent),
              {}, IntYear(2016), FALSE) :
        regions \in SUBSET {DE01, DE02},
        cols \in SUBSET {<<"DE_demand", "oil">>},
        busless \in SUBSET {DE01},
        absent \in {{}, {"storages"}, {"mobility_mileage"}, {"storages", "mobility_mileage"},
                    {"mobility_spec_demand"}}}

\* the year and the debug flag
YearScenarios ==
    {Scenario(BaseTC, {}, y, dbg) :
        y \in {IntYear(2015), IntYear(2016), NoYear, StrYear(2016)}, dbg \in BOOLEAN}

Scenarios ==
    VolatileScenarios \cup HeatScenarios \cup TransmissionScenarios
        \cup PlantScenarios \cup OptionalScenarios \cup YearScenarios

\* a scenario as constructed, before the first table2es call
Init ==
    /\ \E sc \in Scenarios :
        /\ tc = sc.tc
        /\ extra_regions = sc.extra_regions
        /\ year = sc.year
        /\ debug = sc.debug
    /\ es = NoEs
    /\ nodes = EmptyDict
    /\ pc = "idle"
    /\ err = "none"
    /\ trace = <<>>
    /\ runs = 0
    /\ es0 = {}
    /\ last = Op("init", NoLabel, NoneNode)

Next ==
    \/ Table2es
    \/ VolatileSources
    \/ DecentralisedHeat
    \/ ElectricityDemand
    \/ DistrictHeating
    \/ Transmission
    \/ Plants
    \/ Storages
    \/ Mobility
    \/ ShortageExcess
    \/ EsAdd

Spec == Init /\ [][Next]_vars

----------------------------------------------------------------------------
(* The registry alone: item assignments on a NodeDict *)

RegistryKeys ==
    {Label("bus", "electricity", "all", DE01), Label("bus", "electricity", "all", DE02),
     Label("source", "ee", "wind", DE01)}

RegistryItems(key) == {Bus(key), Sink(key, EmptyMap), NoneNode}

InitRegistry ==
    /\ tc = BaseTC
    /\ extra_regions = {}
    /\ year = NoYear
    /\ debug = FALSE
    /\ es = NoEs
    /\ nodes = EmptyDict
    /\ pc = "registry"
    /\ err = "none"
    /\ trace = <<>>
    /\ runs = 0
    /\ es0 = {}
    /\ last = Op("init", NoLabel, NoneNode)

NextRegistry == \E key \in RegistryKeys : \E item \in RegistryItems(key) : RegistryInsert(key, item)

SpecRegistry == InitRegistry /\ [][NextRegistry]_vars

----------------------------------------------------------------------------
(* The horizon alone: initialise_es on a scenario without an energy system *)

Years ==
    {IntYear(y) : y \in YearLo..YearHi} \cup {NoYear, StrYear(2015), StrYear(2016)}

InitHorizon ==
    /\ tc = BaseTC
    /\ extra_regions = {}
    /\ year \in {NoYear, IntYear(2015)}
    /\ debug \in BOOLEAN
    /\ es = NoEs
    /\ nodes = EmptyDict
    /\ pc = "horizon"
    /\ err = "none"
    /\ trace = <<>>
    /\ runs = 0
    /\ es0 = {}
    /\ last = Op("init", NoLabel, NoneNode)

NextHorizon == \E y \in Years : InitialiseEs(y)

SpecHorizon == InitHorizon /\ [][NextHorizon]_vars

----------------------------------------------------------------------------
(* The builders called directly, in any order, on one NodeDict *)

DirectScenarios ==
    {Scenario([WithoutRegions(BaseTC, busless) EXCEPT !.transmission = rows],
              {}, IntYear(2016), FALSE) :
        rows \in TransmissionTables, busless \in {{}, {DE03}}}

InitDirect ==
    /\ \E sc \in DirectScenarios :
        /\ tc = sc.tc
        /\ extra_regions = sc.extra_regions
        /\ year = sc.year
        /\ debug = sc.debug
    /\ es = NoEs
    /\ nodes = EmptyDict
    /\ pc = "direct"
    /\ err = "none"
    /\ trace = <<>>
    /\ runs = 0
    /\ es0 = {}
    /\ last = Op("init", NoLabel, NoneNode)

NextDirect ==
    \/ DirectVolatileSources
    \/ DirectElectricityDemand
    \/ DirectTransmission

SpecDirect == InitDirect /\ [][NextDirect]_vars

----------------------------------------------------------------------------
(* The bus-creating builders called directly, in any order, on one NodeDict *)

\* create_fuel_bus_with_source(nodes, fuel, region, cs) called on the registry
DirectFuelBus(fuel, region) ==
    LET r == create_fuel_bus_with_source(Res(nodes, "none"), fuel, region,
                                         tc.commodity_source)
    IN  /\ pc = "direct"
        /\ runs < MaxCalls
        /\ runs' = runs + 1
        /\ nodes' = r.nodes
        /\ err' = r.err
        /\ trace' = Append(trace, "fuel")
        /\ last' = Op("fuel", Label("bus", "commodity", ReplaceSpace(fuel), region), NoneNode)
        /\ UNCHANGED <<tc, extra_regions, year, debug, es, pc, es0>>

\* volatile capacities and electricity demands, zero and positive
BusScenarios ==
    {Scenario([BaseTC EXCEPT
                  !.volatile_source = (<<DE02, "wind">> :> MaxCap) @@ vs,
                  !.demand_series = WithDemand(BaseDemand, "electrical_load", el)],
              {}, IntYear(2016), FALSE) :
        vs \in PartialFns({<<DE01, "wind">>}, 0..MaxCap),
        el \in PartialFns({DE01, DE03}, {ZeroSeries, FlatSeries})}

InitBus ==
    /\ \E sc \in BusScenarios :
        /\ tc = sc.tc
        /\ extra_regions = sc.extra_regions
        /\ year = sc.year
        /\ debug = sc.debug
    /\ es = NoEs
    /\ nodes = EmptyDict
    /\ pc = "direct"
    /\ err = "none"
    /\ trace = <<>>
    /\ runs = 0
    /\ es0 = {}
    /\ last = Op("init", NoLabel, NoneNode)

NextBus ==
    \/ DirectVolatileSources
    \/ DirectElectricityDemand
    \/ \E fuel \in Range(Fuels) : \E region \in {"DE", DE01} : DirectFuelBus(fuel, region)

SpecBus == InitBus /\ [][NextBus]_vars

----------------------------------------------------------------------------
(* Claims *)

Stored(d, key) == key \in DOMAIN d /\ d[key] # NoneNode

\* C1: an item assignment under a key that already maps to a node fails with
\* KeyError and leaves every entry of the registry as it was; an assignment
\* under an absent key succeeds, stores the item under the key and leaves every
\* other entry as it was.
C1_Uniqueness ==
    last.op = "setitem" =>
        /\ Stored(last.before, last.key) =>
            /\ err = "KeyError"
            /\ DOMAIN nodes = DOMAIN last.before
            /\ \A k \in DOMAIN nodes : nodes[k] = last.before[k]
        /\ last.key \notin DOMAIN last.before =>
            /\ err = "none"
            /\ DOMAIN nodes = DOMAIN last.before \cup {last.key}
            /\ nodes[last.key] = last.item
            /\ \A k \in DOMAIN last.before : nodes[k] = last.before[k]

\* a second assignment under a key that holds a node, of another node, was refused
C1_Witness ==
    /\ last.op = "setitem"
    /\ Stored(last.before, last.key)
    /\ last.item # NoneNode
    /\ last.item # last.before[last.key]
    /\ err = "KeyError"
    /\ Cardinality(DOMAIN nodes) = 2

\* C9: without debug, initialising the energy system gives 8784 steps for a
\* leap year (2016) and 8760 steps for any other year (2015); a year that is
\* None or a str raises TypeError and leaves the scenario without an energy
\* system; with debug, an energy system that is created has 3 steps, and one is
\* created for every int year.
C9_HorizonLength ==
    last.op = "initialise_es" =>
        LET y == year.val
            leap == \E k \in 0..y : y = 4 * k /\ ((\E c \in 0..y : y = 100 * c) => \E q \in 0..y : y = 400 * q)
        IN  /\ (~debug /\ year.kind = "int" /\ leap) =>
                (err = "none" /\ es.exists /\ es.steps = 8784)
            /\ (~debug /\ year.kind = "int" /\ ~leap) =>
                (err = "none" /\ es.exists /\ es.steps = 8760)
            /\ (~debug /\ year = IntYear(2016)) => es.steps = 8784
            /\ (~debug /\ year = IntYear(2015)) => es.steps = 8760
            /\ (~debug /\ year.kind # "int") => (err = "TypeError" /\ ~es.exists)
            /\ (debug /\ year.kind = "int") => err = "none"
            /\ (debug /\ err = "none") => (es.exists /\ es.steps = 3)

\* the horizon of the leap year 2016 was set up without debug
C9_Witness ==
    /\ last.op = "initialise_es"
    /\ ~debug
    /\ year = IntYear(2016)
    /\ es.exists
    /\ es.steps = 8784

ElecBus(g) == Label("bus", "electricity", "all", g)
HeatBus(g) == Label("bus", "heat", "district", g)
LineKey(a, b) == Label("line", "electricity", a, b)

BusNodes(d) == {k \in DOMAIN d : d[k].type = "Bus"}

\* both electricity buses of a transmission row are in registry d
EndpointsIn(row, d) == ElecBus(row.idx[1]) \in DOMAIN d /\ ElecBus(row.idx[2]) \in DOMAIN d

\* C2: the transmission builder, called on a registry that holds no line and
\* lacks the electricity bus of an endpoint of some row, raises ValueError (the
\* MissingBus error); and whatever a call of it does, the buses of the registry
\* after the call are those before it: a missing bus is never inserted.
C2_MissingBus ==
    last.op = "tl" =>
        /\ BusNodes(nodes) = BusNodes(last.before)
        /\ \A g \in Range(ElecRegions) :
              ElecBus(g) \notin DOMAIN last.before => ElecBus(g) \notin DOMAIN nodes
        /\ ({k \in DOMAIN last.before : k.cat = "line"} = {}
              /\ \E i \in DOMAIN tc.transmission : ~EndpointsIn(tc.transmission[i], last.before))
           => err = "ValueError"

\* the transmission builder was the first builder called, on an empty registry
C2_Witness ==
    /\ last.op = "tl"
    /\ trace = <<"tl">>
    /\ last.before = EmptyDict
    /\ Len(tc.transmission) > 0
    /\ err = "ValueError"
    /\ nodes = EmptyDict

\* the Transformer of row from region a to region b, as the claim describes it
LineAsClaimed(row, a, b) ==
    /\ LineKey(a, b) \in DOMAIN nodes
    /\ LET node == nodes[LineKey(a, b)]
       IN  /\ node.type = "Transformer"
           /\ DOMAIN node.inputs = {ElecBus(a)}
           /\ DOMAIN node.outputs = {ElecBus(b)}
           /\ DOMAIN node.conversion_factors = {ElecBus(b)}
           /\ node.conversion_factors[ElecBus(b)] = row.efficiency
           /\ node.outputs[ElecBus(b)].nominal_value =
                 IF row.capacity.d = 0 THEN <<>> ELSE <<row.capacity>>

\* C3: in a run of the transmission builder, for every row "A-B" reached with
\* both endpoint buses in the registry (as are those of the rows before it) the
\* registry holds the Transformer A -> B and the Transformer B -> A, each with
\* the row's efficiency as conversion factor of its output and with
\* nominal_value = capacity on its output when the capacity is finite, none
\* when it is inf; these two per row are all the builder adds, and it changes
\* no entry that was there.
C3_TransmissionSymmetry ==
    last.op = "tl" =>
        LET rows == tc.transmission
            reached == {i \in DOMAIN rows : \A j \in 1..i : EndpointsIn(rows[j], last.before)}
        IN  /\ \A i \in reached :
                  /\ LineAsClaimed(rows[i], rows[i].idx[1], rows[i].idx[2])
                  /\ LineAsClaimed(rows[i], rows[i].idx[2], rows[i].idx[1])
            /\ DOMAIN nodes \ DOMAIN last.before =
                  UNION {{LineKey(rows[i].idx[1], rows[i].idx[2]),
                          LineKey(rows[i].idx[2], rows[i].idx[1])} : i \in reached}
            /\ Cardinality(DOMAIN nodes \ DOMAIN last.before) = 2 * Cardinality(reached)
            /\ \A k \in DOMAIN last.before : nodes[k] = last.before[k]
            /\ (err = "none") = (reached = DOMAIN rows)

\* the builder returned from a table with a bounded and an unbounded line
C3_Witness ==
    /\ last.op = "tl"
    /\ err = "none"
    /\ Len(tc.transmission) = 2
    /\ tc.transmission[1].capacity = Inf
    /\ tc.transmission[2].capacity # Inf
    /\ tc.transmission[1].efficiency # tc.transmission[2].efficiency
    /\ Cardinality({k \in DOMAIN nodes : k.cat = "line"}) = 4

\* create_nodes has returned the registry
Compiled == pc \in {"add", "done"}

\* C4: after a successful compilation every Bus of the registry is the input
\* of exactly one excess Sink and the output of exactly one shortage Source,
\* and every excess and shortage node is attached to one node, which is a Bus.
C4_ShortageUniversality ==
    Compiled =>
        /\ \A b \in BusNodes(nodes) :
              /\ Cardinality({k \in DOMAIN nodes :
                     k.cat = "excess" /\ nodes[k].type = "Sink"
                        /\ b \in DOMAIN nodes[k].inputs}) = 1
              /\ Cardinality({k \in DOMAIN nodes :
                     k.cat = "shortage" /\ nodes[k].type = "Source"
                        /\ b \in DOMAIN nodes[k].outputs}) = 1
        /\ \A k \in DOMAIN nodes :
              k.cat \in {"excess", "shortage"} =>
                  /\ Cardinality(DOMAIN nodes[k].inputs \cup DOMAIN nodes[k].outputs) = 1
                  /\ DOMAIN nodes[k].inputs \cup DOMAIN nodes[k].outputs \subseteq BusNodes(nodes)
        /\ Cardinality({k \in DOMAIN nodes : k.cat \in {"excess", "shortage"}})
              = 2 * Cardinality(BusNodes(nodes))

\* a compiled registry with electricity, heat and commodity buses beside nodes
\* of the other categories
C4_Witness ==
    /\ pc = "done"
    /\ {"electricity", "heat", "commodity"} \subseteq {k.tag : k \in BusNodes(nodes)}
    /\ {"source", "demand", "trsf", "line", "storage", "Usage"} \subseteq {k.cat : k \in DOMAIN nodes}

\* capacity * sum(feedin) of a column of volatile_source, feedin being [0]
\* when volatile_series has no such column
VolatileProduct(col) ==
    tc.volatile_source[col] *
        (IF "volatile_series" \in DOMAIN tc /\ col \in DOMAIN tc.volatile_series
         THEN SumSeq(tc.volatile_series[col]) ELSE 0)

\* demand_series has a column of this kind for region g and its sum is > 0
\* (the column is (g, kind) as loaded and (kind, g) once the levels are swapped)
DemandPositive(kind, g) ==
    LET dts == tc.demand_series
    IN  \/ <<kind, g>> \in DOMAIN dts /\ SumSeq(dts[<<kind, g>>]) > 0
        \/ <<g, kind>> \in DOMAIN dts /\ SumSeq(dts[<<g, kind>>]) > 0

\* the keys the volatile-source and the two demand builders can create for g
RegionKeys(g) ==
    {ElecBus(g), HeatBus(g), Label("demand", "electricity", "all", g),
     Label("demand", "heat", "district", g)}
        \cup {Label("source", "ee", ty, g) : ty \in Range(VSTypes)}

\* C5 as claimed: after compilation a region whose volatile entries all have
\* capacity * sum = 0 and whose electricity and district-heat demand sum to
\* zero has no node from the volatile-source and demand builders.
C5_Original ==
    Compiled =>
        \A g \in Range(ElecRegions) :
            (/\ \A col \in DOMAIN tc.volatile_source : col[1] = g => VolatileProduct(col) = 0
             /\ ~DemandPositive("electrical_load", g)
             /\ ~DemandPositive("district heating", g))
            => RegionKeys(g) \cap DOMAIN nodes = {}

\* C5, amended: once the volatile-source and the two demand builders have
\* returned, the registry holds a volatile Source exactly for the entries with
\* capacity * sum(feedin) > 0, an electricity (district-heat) demand Sink and a
\* district-heat bus exactly for the columns with sum > 0, and an electricity
\* bus exactly for the regions that head a volatile_source column (whatever
\* its capacity) or have an electricity demand with sum > 0.
C5_Minimality ==
    pc \in {"tl", "pp", "st", "mob", "se", "add", "done"} =>
        \A g \in Range(ElecRegions) :
            /\ \A ty \in Range(VSTypes) :
                  (Label("source", "ee", ty, g) \in DOMAIN nodes)
                     = (<<g, ty>> \in DOMAIN tc.volatile_source /\ VolatileProduct(<<g, ty>>) > 0)
            /\ (Label("demand", "electricity", "all", g) \in DOMAIN nodes)
                  = DemandPositive("electrical_load", g)
            /\ (Label("demand", "heat", "district", g) \in DOMAIN nodes)
                  = DemandPositive("district heating", g)
            /\ (HeatBus(g) \in DOMAIN nodes) = DemandPositive("district heating", g)
            /\ (ElecBus(g) \in DOMAIN nodes)
                  = (g \in Level0(tc.volatile_source) \/ DemandPositive("electrical_load", g))

\* a compiled registry from tables with a zero-capacity volatile entry in a
\* region without demand, and a zero-sum electricity demand column
C5_Witness ==
    /\ pc = "done"
    /\ \E col \in DOMAIN tc.volatile_source :
          /\ VolatileProduct(col) = 0
          /\ ~DemandPositive("electrical_load", col[1])
          /\ ~DemandPositive("district heating", col[1])
          /\ Label("source", "ee", col[2], col[1]) \notin DOMAIN nodes
          /\ ElecBus(col[1]) \in DOMAIN nodes
    /\ \E g \in Range(ElecRegions) :
          /\ <<"electrical_load", g>> \in DOMAIN tc.demand_series
          /\ SumSeq(tc.demand_series[<<"electrical_load", g>>]) = 0
          /\ Label("demand", "electricity", "all", g) \notin DOMAIN nodes

\* the columns of volatile_source without a feed-in series
SeriesMissing ==
    {col \in DOMAIN tc.volatile_source :
        ~("volatile_series" \in DOMAIN tc /\ col \in DOMAIN tc.volatile_series)}

\* C6: a run of the volatile-source builder raises ValueError (the
\* MissingSeries error) when some (region, technology) has no feed-in series
\* and capacity > 0, and leaves no Source for such a pair; when every pair
\* without a series has capacity 0 it returns, and leaves no Source for them.
C6_MissingSeries ==
    last.op = "vs" =>
        /\ (\E col \in SeriesMissing : tc.volatile_source[col] > 0) => err = "ValueError"
        /\ (\A col \in SeriesMissing : tc.volatile_source[col] = 0) => err = "none"
        /\ \A col \in SeriesMissing : Label("source", "ee", col[2], col[1]) \notin DOMAIN nodes

\* the builder took the default series for a zero-capacity pair, made its bus,
\* and then raised on a pair of capacity > 0
C6_Witness ==
    /\ last.op = "vs"
    /\ err = "ValueError"
    /\ \E c1, c2 \in SeriesMissing :
          /\ tc.volatile_source[c1] = 0
          /\ ElecBus(c1[1]) \in DOMAIN nodes
          /\ tc.volatile_source[c2] > 0

\* C7: the energy system holds the nodes it held when table2es was called
\* until create_nodes has returned: after a failed call, and at every position
\* inside create_nodes, nothing was added; after a call that returned, the
\* energy system holds those and every node of the registry.
C7_NoPartialHandoff ==
    /\ pc \in {"vs", "dh", "ed", "dhs", "tl", "pp", "st", "mob", "se", "add", "failed"} =>
          es.nodes = es0
    /\ pc = "failed" => err # "none"
    /\ pc = "done" => (err = "none" /\ es.nodes = es0 \cup {nodes[k] : k \in DOMAIN nodes})

\* a builder raised on a registry that held nodes of earlier builders
C7_Witness ==
    /\ pc = "failed"
    /\ last.op = "pp"
    /\ err = "KeyError"
    /\ Cardinality(DOMAIN nodes) > 2
    /\ es.exists
    /\ es.nodes = {}

IsPrefix(s, t) == Len(s) <= Len(t) /\ \A i \in 1..Len(s) : s[i] = t[i]

\* the builders of a run, in the order the claim gives
ClaimedOrder ==
    <<"vs", "dh", "ed", "dhs", "tl", "pp">>
        \o (IF "storages" \in DOMAIN tc THEN <<"st">> ELSE <<>>)
        \o (IF "mobility_mileage" \in DOMAIN tc THEN <<"mob">> ELSE <<>>)
        \o <<"se">>

\* C8: the builders called in a run are a prefix of: volatile sources,
\* decentralised heat, electricity demand, district heat, transmission, plants,
\* storages iff the collection has "storages", mobility iff it has
\* "mobility_mileage", shortage/excess; the builder about to be called is the
\* next of that order, and a run that returns has called all of them.
C8_BuilderOrder ==
    /\ IsPrefix(trace, ClaimedOrder)
    /\ pc \in {"vs", "dh", "ed", "dhs", "tl", "pp", "st", "mob", "se"} =>
          (Len(trace) < Len(ClaimedOrder) /\ ClaimedOrder[Len(trace) + 1] = pc)
    /\ Compiled => trace = ClaimedOrder

\* a run returned on a collection with mobility_mileage and without storages
C8_Witness ==
    /\ pc = "done"
    /\ "storages" \notin DOMAIN tc
    /\ "mobility_mileage" \in DOMAIN tc
    /\ trace = <<"vs", "dh", "ed", "dhs", "tl", "pp", "mob", "se">>

\* C10: once the plant builder has returned, for every (region, fuel) with
\* capacity_heat_chp > 0 the registry holds a chp Transformer whose one input,
\* from a commodity bus, has nominal_value * efficiency_heat_chp =
\* capacity_heat_chp and summed_max * capacity_heat_chp = limit_heat_chp, and
\* whose conversion factors are efficiency_elec_chp for the electricity bus and
\* efficiency_heat_chp for the district-heat bus of the region; for 800, 0.5
\* and 1600 these are nominal_value 1600 and summed_max 2.
C10_ChpSplit ==
    pc \in {"st", "mob", "se", "add", "done"} =>
        \A col \in DOMAIN tc.transformer :
            LET p == tc.transformer[col]
                key == Label("trsf", "chp", ReplaceSpace(col[2]), col[1])
            IN  p.capacity_heat_chp.n > 0 =>
                /\ key \in DOMAIN nodes
                /\ nodes[key].type = "Transformer"
                /\ Cardinality(DOMAIN nodes[key].inputs) = 1
                /\ \A b \in DOMAIN nodes[key].inputs :
                      LET f == nodes[key].inputs[b]
                      IN  /\ b.cat = "bus" /\ b.tag = "commodity"
                          /\ Len(f.nominal_value) = 1 /\ Len(f.summed_max) = 1
                          /\ f.nominal_value[1].d > 0 /\ f.summed_max[1].d > 0
                          /\ f.nominal_value[1].n * p.efficiency_heat_chp.n * p.capacity_heat_chp.d
                                = p.capacity_heat_chp.n * p.efficiency_heat_chp.d * f.nominal_value[1].d
                          /\ f.summed_max[1].n * p.capacity_heat_chp.n * p.limit_heat_chp.d
                                = p.limit_heat_chp.n * p.capacity_heat_chp.d * f.summed_max[1].d
                          /\ (p.capacity_heat_chp = R(800) /\ p.efficiency_heat_chp = Rat(1, 2)
                                /\ p.limit_heat_chp = R(1600))
                             => (f.nominal_value = <<R(1600)>> /\ f.summed_max = <<R(2)>>)
                /\ DOMAIN nodes[key].outputs = {ElecBus(col[1]), HeatBus(col[1])}
                /\ DOMAIN nodes[key].conversion_factors = {ElecBus(col[1]), HeatBus(col[1])}
                /\ nodes[key].conversion_factors[ElecBus(col[1])] = p.efficiency_elec_chp
                /\ nodes[key].conversion_factors[HeatBus(col[1])] = p.efficiency_heat_chp

\* a compiled registry with the chp plant of 800, 0.5 and 1600, and with one of
\* another heat efficiency
C10_Witness ==
    /\ pc = "done"
    /\ \E col \in DOMAIN tc.transformer :
          /\ tc.transformer[col].capacity_heat_chp = R(800)
          /\ tc.transformer[col].efficiency_heat_chp = Rat(1, 2)
          /\ tc.transformer[col].limit_heat_chp = R(1600)
          /\ Label("trsf", "chp", ReplaceSpace(col[2]), col[1]) \in DOMAIN nodes
    /\ \E col \in DOMAIN tc.transformer :
          /\ tc.transformer[col].capacity_heat_chp = R(800)
          /\ tc.transformer[col].efficiency_heat_chp = Rat(3, 10)

\* the bus keys get-or-create is applied to
ProbeBusKeys ==
    {ElecBus(g) : g \in Range(ElecRegions)}
        \cup {Label("bus", "commodity", ReplaceSpace(f), g) : f \in Range(Fuels), g \in {"DE", DE01}}

\* every entry of registry d is in registry e, unchanged
Kept(d, e) == \A k \in DOMAIN d : k \in DOMAIN e /\ e[k] = d[k]

\* C11: get-or-create of a bus on any registry the bus-creating builders
\* produce: under an absent key a new Bus is stored, under a present key the
\* stored Bus stays and no KeyError is raised, and a second application changes
\* nothing. In the builders: the electricity-demand builder run after the
\* volatile-source builder (and the other way round) reuses the regional
\* electricity bus, and create_fuel_bus_with_source asked twice for a fuel bus
\* returns with the registry as the first call left it.
C11_GetOrCreate ==
    /\ \A key \in ProbeBusKeys :
          LET r1 == GetOrCreateBus(Res(nodes, "none"), key)
              r2 == GetOrCreateBus(r1, key)
          IN  /\ r1.err = "none"
              /\ DOMAIN r1.nodes = DOMAIN nodes \cup {key}
              /\ Kept(nodes, r1.nodes)
              /\ key \notin DOMAIN nodes => r1.nodes[key] = Bus(key)
              /\ r2 = r1
    /\ last.op = "fuel" =>
          /\ err = "none"
          /\ last.key \in DOMAIN nodes
          /\ nodes[last.key] = Bus(last.key)
          /\ Kept(last.before, nodes)
          /\ last.key \in DOMAIN last.before => nodes = last.before
    /\ (/\ last.op = "ed"
        /\ "electrical_load" \in Level0(tc.demand_series)
        /\ \A k \in DOMAIN last.before : k.cat # "demand") =>
          /\ err = "none"
          /\ Kept(last.before, nodes)
          /\ \A g \in Range(ElecRegions) :
                DemandPositive("electrical_load", g) =>
                    /\ ElecBus(g) \in DOMAIN nodes
                    /\ nodes[ElecBus(g)] = Bus(ElecBus(g))
    /\ (/\ last.op = "vs"
        /\ \A k \in DOMAIN last.before : k.tag # "ee") =>
          /\ err = "none"
          /\ Kept(last.before, nodes)
          /\ \A col \in DOMAIN tc.volatile_source :
                /\ ElecBus(col[1]) \in DOMAIN nodes
                /\ nodes[ElecBus(col[1])] = Bus(ElecBus(col[1]))

\* the electricity-demand builder attached a Sink to a bus the volatile-source
\* builder had created, on a registry holding a fuel bus and its source
C11_Witness ==
    /\ trace = <<"fuel", "vs", "ed">>
    /\ err = "none"
    /\ \E g \in Range(ElecRegions) :
          /\ ElecBus(g) \in DOMAIN last.before
          /\ Label("demand", "electricity", "all", g) \in DOMAIN nodes
          /\ Label("demand", "electricity", "all", g) \notin DOMAIN last.before
    /\ Cardinality({k \in DOMAIN nodes : k.tag = "commodity"}) = 2

\* the builders of create_nodes, by the names of the trace
BuilderNames == {"vs", "dh", "ed", "dhs", "tl", "pp", "st", "mob", "se"}

\* C12: in a compilation run the registry is empty when create_nodes starts,
\* and every builder call, whether it returns or raises, leaves every entry
\* that was in the registry before it under the same key with the same node;
\* handing the registry to the energy system leaves it as it is.
C12_Monotonic ==
    /\ last.op = "table2es" => nodes = EmptyDict
    /\ trace = <<>> => nodes = EmptyDict
    /\ last.op \in BuilderNames =>
          /\ Kept(last.before, nodes)
          /\ DOMAIN last.before \subseteq DOMAIN nodes
    /\ last.op = "add" => nodes = last.before

\* the second run of a scenario starts on an empty registry after a first run
\* that filled one, and a builder of it added entries to those before it
C12_Witness ==
    /\ runs = 2
    /\ es.nodes # {}
    /\ last.op = "vs"
    /\ pc = "dh"
    /\ last.before = EmptyDict
    /\ nodes # EmptyDict

\* the buses node d[k] is connected to: the keys of its inputs, outputs and
\* conversion factors
Ends(d, k) ==
    DOMAIN d[k].inputs \cup DOMAIN d[k].outputs \cup DOMAIN d[k].conversion_factors

\* the nodes with a Flow into bus b, and those with a Flow out of it
Inbound(d, b) == {k \in DOMAIN d : b \in DOMAIN d[k].outputs}
Outbound(d, b) == {k \in DOMAIN d : b \in DOMAIN d[k].inputs}

\* C13: after a successful compilation every node is stored under its own
\* label, every Flow (and conversion factor) of every node names a Bus that is
\* stored in the registry under its own label, every node other than a Bus has
\* at least one Flow, and every Bus has at least one inbound and at least one
\* outbound Flow.
C13_Connected ==
    Compiled =>
        /\ \A k \in DOMAIN nodes :
              /\ nodes[k].label = k
              /\ \A b \in Ends(nodes, k) :
                    /\ b \in DOMAIN nodes
                    /\ nodes[b].type = "Bus"
                    /\ nodes[b].label = b
              /\ nodes[k].type # "Bus" => DOMAIN nodes[k].inputs \cup DOMAIN nodes[k].outputs # {}
        /\ \A b \in BusNodes(nodes) :
              /\ Inbound(nodes, b) # {}
              /\ Outbound(nodes, b) # {}

\* a compiled registry with a chp plant on three buses and a bus that only its
\* excess and shortage nodes are attached to
C13_Witness ==
    /\ pc = "done"
    /\ \E k \in DOMAIN nodes : k.tag = "chp" /\ Cardinality(Ends(nodes, k)) = 3
    /\ \E b \in BusNodes(nodes) :
          /\ Cardinality(Inbound(nodes, b)) = 1
          /\ Cardinality(Outbound(nodes, b)) = 1

\* the key of the plant of a kind ("pp", "chp", "hp") of column (region, fuel)
PlantKey(kind, col) == Label("trsf", kind, ReplaceSpace(col[2]), col[1])

\* the capacity that decides whether the plant of a kind is built
PlantCapacity(kind, params) ==
    IF kind = "pp" THEN params.capacity
    ELSE IF kind = "chp" THEN params.capacity_heat_chp
    ELSE params.capacity_hp

\* the fuel bus the claim names for (region, fuel)
ClaimedFuelBus(col) ==
    Label("bus", "commodity", ReplaceSpace(col[2]),
          IF col[1] \in extra_regions THEN col[1] ELSE "DE")

\* C14: when the plant builder has returned, for every (region, fuel) and each
\* of the kinds pp, chp, hp the registry holds the Transformer of that kind
\* iff the capacity of that kind (capacity, capacity_heat_chp, capacity_hp) is
\* > 0, whatever the other two are; when it has raised, it holds none for a
\* capacity that is not > 0. Every such Transformer has one input, from the
\* commodity bus of the fuel in the region itself when the region is an extra
\* region and in DE otherwise, and that bus is in the registry.
C14_PlantCases ==
    (pc \in {"st", "mob", "se", "add", "done"} \/ (pc = "failed" /\ last.op = "pp")) =>
        \A col \in DOMAIN tc.transformer : \A kind \in {"pp", "chp", "hp"} :
            /\ PlantKey(kind, col) \in DOMAIN nodes
                  => PlantCapacity(kind, tc.transformer[col]).n > 0
            /\ (pc # "failed" /\ PlantCapacity(kind, tc.transformer[col]).n > 0)
                  => PlantKey(kind, col) \in DOMAIN nodes
            /\ PlantKey(kind, col) \in DOMAIN nodes =>
                  /\ nodes[PlantKey(kind, col)].type = "Transformer"
                  /\ DOMAIN nodes[PlantKey(kind, col)].inputs = {ClaimedFuelBus(col)}
                  /\ ClaimedFuelBus(col) \in BusNodes(nodes)

\* a compiled registry with all three plants of one (region, fuel) in an extra
\* region, on the region's own fuel bus, and a plant of another region on the
\* national bus
C14_Witness ==
    /\ pc = "done"
    /\ \E col \in DOMAIN tc.transformer :
          /\ col[1] \in extra_regions
          /\ \A kind \in {"pp", "chp", "hp"} : PlantKey(kind, col) \in DOMAIN nodes
    /\ \E col \in DOMAIN tc.transformer :
          /\ col[1] \notin extra_regions
          /\ PlantKey("pp", col) \in DOMAIN nodes
          /\ DOMAIN nodes[PlantKey("pp", col)].inputs
                = {Label("bus", "commodity", ReplaceSpace(col[2]), "DE")}

\* the annual energy figures the constant draw of a fuel may be taken from: the
\* energy of the fuel itself, and the energy of both fuels together
AnnualEnergy(fuel) ==
    {MobilityEnergy(tc)[fuel],
     RAdd(MobilityEnergy(tc)["diesel"], MobilityEnergy(tc)["petrol"])}

\* C15 as claimed: when the mobility builder has returned, the registry holds
\* for each of diesel and petrol one Sink whose only input comes from the
\* national oil commodity bus, with the fixed flag set and a driving series
\* that has, at every time step, the value annual energy / number of steps.
C15_FixedDraw ==
    (pc \in {"se", "add", "done"} /\ "mobility_mileage" \in DOMAIN tc) =>
        \A fuel \in Range(MobilityFuels) :
            LET key == Label("Usage", "mobility", fuel, "DE")
                oil == Label("bus", "commodity", "oil", "DE")
            IN  /\ key \in DOMAIN nodes
                /\ nodes[key].type = "Sink"
                /\ DOMAIN nodes[key].inputs = {oil}
                /\ nodes[key].inputs[oil].fixed = <<TRUE>>
                /\ Len(nodes[key].inputs[oil].actual_value) = 1
                /\ \E e \in AnnualEnergy(fuel) :
                      nodes[key].inputs[oil].actual_value[1]
                         = [i \in 1..NSteps |-> RDiv(e, R(NSteps))]

\* the kinds of column of demand_series: series names and fuels
DemandKinds == {"electrical_load", "district heating"} \cup Range(Fuels)

\* demand_series and storages have their columns as in the tables as loaded:
\* (region, kind) and (region, "phes")
AsLoaded(t) ==
    /\ \A c \in DOMAIN t.demand_series : c[2] \in DemandKinds
    /\ "storages" \in DOMAIN t => \A c \in DOMAIN t.storages : c[2] = "phes"

\* C16 as claimed: when create_nodes has returned, demand_series and storages
\* have their column levels in the order they had before the call; and the
\* second table2es call on a scenario whose first call returned does not fail
\* and hands over no node other than those of the first call.
C16_ReadOnly ==
    /\ Compiled => AsLoaded(tc)
    /\ (runs = 2 /\ es0 # {}) =>
          /\ pc # "failed"
          /\ pc = "done" => es.nodes = es0

\* what the code does in the second call on a scenario whose first call
\* returned: the decentralised-heat builder raises KeyError on demand_series,
\* whose column levels the first call has swapped
SecondRunFails ==
    (runs = 2 /\ es0 # {}) =>
        /\ pc \in {"vs", "dh", "failed"}
        /\ ~AsLoaded(tc)
        /\ pc = "failed" => (last.op = "dh" /\ err = "KeyError")

====
